---- MODULE Spec2Model ----
(***************************************************************************)
(* Model of project_builder.py: main() loads a YAML project description,   *)
(* walks `directories` as a stack while flattening child names to          *)
(* "parent/child", creates directories and marker files in the working     *)
(* directory and finally renders the logging configuration.                *)
(*                                                                         *)
(* A path string is modelled as the sequence of its '/'-separated          *)
(* segments; declared names are single segments.  The working directory is *)
(* a function from the paths that exist to entries (directory, or file     *)
(* with its content).                                                      *)
(* A second run of main() over the same document and the tree the first    *)
(* run left behind is part of the model (action Rerun).                    *)
(***************************************************************************)
EXTENDS Naturals, Sequences, FiniteSets

VARIABLES
    yaml,         \* what file_path resolves to: nothing, a directory, a document
    fs,           \* the working directory: path -> entry
    run,          \* 1 in the first call of main(), 2 in the repeated one
    pc,           \* "start", "loop", "done" (main returned) or "raised"
    err,          \* the exception that ended main(), or "none"
    config,       \* what read_yaml_file returned
    directories,  \* the work stack of main(): a sequence of nodes
    names,        \* node -> its current d["name"], mutated in place
    processed,    \* history: one record per loop iteration, in order
    mutations,    \* history: node -> number of assignments to d["name"]
    fs0           \* history: the working directory when this run started

vars == <<yaml, fs, run, pc, err, config, directories, names,
          processed, mutations, fs0>>

(***************************************************************************)
(* Bounds                                                                  *)
(***************************************************************************)
\* largest number of nodes (top-level and nested together) of a document
MaxNodes == 3

\* segment names a document may declare
Segs == {"configs", "logging"}

\* values of a node's `type`; "symlink" stands for any value outside
\* {"directory", "file"}
Types == {"directory", "file", "symlink"}

(***************************************************************************)
(* Paths and the working directory                                         *)
(***************************************************************************)
logging_dir == <<"configs", "logging">>
logging_config_name == "logging_config.json"
LoggingConfigPath == Append(logging_dir, logging_config_name)
TemplatePath == <<"logging_config_template.json">>

Absent == [kind |-> "absent", content |-> <<>>]
Dir == [kind |-> "dir", content |-> <<>>]
File(text) == [kind |-> "file", content |-> text]

MarkerText == <<"# file automatically generated">>
TemplateText == <<"${LOG_FILE_PATH}", "${ROOT_LOG_LEVEL}">>
UserText == <<"user content">>

\* "./src" and "src" name the same entry: "." segments resolve away
Resolve(path) == SelectSeq(path, LAMBDA s : s # ".")

Parent(p) == SubSeq(p, 1, Len(p) - 1)

Prefixes(p) == {SubSeq(p, 1, k) : k \in 1..Len(p)}

\* the entry at a resolved path; the working directory itself is a directory
Entry(f, p) ==
    IF p = <<>> THEN Dir ELSE IF p \in DOMAIN f THEN f[p] ELSE Absent

\* os.path.isdir / os.path.isfile
IsDir(f, path) == Entry(f, Resolve(path)).kind = "dir"

IsFile(f, path) == Entry(f, Resolve(path)).kind = "file"

(***************************************************************************)
(* Filesystem calls.  Each returns the new working directory and an        *)
(* outcome: "created", "exists", or the exception raised.                  *)
(***************************************************************************)
Result(f, outcome) == [fs |-> f, outcome |-> outcome]

Raised(outcome) == outcome \notin {"created", "exists", "skipped", "none"}

\* os.makedirs(path, exist_ok=False): every missing segment becomes a
\* directory; a segment that is a file, or an existing target, raises before
\* anything is created
makedirs(f, path) ==
    LET p == Resolve(path)
    IN  IF \E q \in Prefixes(Parent(p)) : Entry(f, q).kind = "file"
        THEN Result(f, "NotADirectoryError")
        ELSE IF Entry(f, p).kind # "absent"
        THEN Result(f, "FileExistsError")
        ELSE Result([q \in DOMAIN f \cup Prefixes(p) |->
                        IF q \in Prefixes(p) THEN Dir ELSE f[q]],
                    "created")

\* open(path, "w") followed by f.write(text)
OpenWrite(f, path, text) ==
    LET p == Resolve(path)
    IN  IF \E q \in Prefixes(Parent(p)) : Entry(f, q).kind = "file"
        THEN Result(f, "NotADirectoryError")
        ELSE IF ~IsDir(f, Parent(p))
        THEN Result(f, "FileNotFoundError")
        ELSE IF Entry(f, p).kind = "dir"
        THEN Result(f, "IsADirectoryError")
        ELSE Result([q \in DOMAIN f \cup {p} |->
                        IF q = p THEN File(text) ELSE f[q]],
                    "created")

\* variant: the existence test inverted
create_directory_inverted(f, directory_path) ==
    IF ~IsDir(f, directory_path)
    THEN Result(f, "exists")
    ELSE makedirs(f, directory_path)

create_directory(f, directory_path) ==
    IF IsDir(f, directory_path)
    THEN Result(f, "exists")
    ELSE makedirs(f, directory_path)

\* variant: no existence test, the file is always opened for writing
create_empty_file_overwrite(f, file_path) ==
    OpenWrite(f, file_path, MarkerText)

create_empty_file(f, file_path) ==
    IF IsFile(f, file_path)
    THEN Result(f, "exists")
    ELSE OpenWrite(f, file_path, MarkerText)

\* str.replace on a text held as a sequence of tokens
Replace(text, old, new) ==
    [k \in 1..Len(text) |-> IF text[k] = old THEN new ELSE text[k]]

\* variant: the target directory is not tested before writing
setup_logging_unguarded(f, log_file_path, root_log_level) ==
    IF ~IsFile(f, TemplatePath)
    THEN Result(f, "FileNotFoundError")
    ELSE OpenWrite(f, LoggingConfigPath,
                   Replace(Replace(Entry(f, TemplatePath).content,
                                   "${LOG_FILE_PATH}", log_file_path),
                           "${ROOT_LOG_LEVEL}", root_log_level))

\* the template is read before the target directory is looked at
setup_logging(f, log_file_path, root_log_level) ==
    IF ~IsFile(f, TemplatePath)
    THEN Result(f, "FileNotFoundError")
    ELSE LET template_content == Entry(f, TemplatePath).content
             templated_content ==
                 Replace(Replace(template_content, "${LOG_FILE_PATH}", log_file_path),
                         "${ROOT_LOG_LEVEL}", root_log_level)
         IN  IF IsDir(f, logging_dir)
             THEN OpenWrite(f, LoggingConfigPath, templated_content)
             ELSE Result(f, "skipped")

(***************************************************************************)
(* Documents.  Nodes are numbered 1..n in declaration (document) order, so *)
(* siblings are declared in increasing order; parent[i] = 0 for a          *)
(* top-level node.                                                         *)
(***************************************************************************)
RECURSIVE AncestorsOrSelf(_, _)
AncestorsOrSelf(par, i) ==
    IF i = 0 THEN {} ELSE {i} \cup AncestorsOrSelf(par, par[i])

Ancestors(par, i) == AncestorsOrSelf(par, par[i])

\* document order: a node follows its parent, and a node's parent is the
\* previous node or one of the previous node's ancestors
DocumentOrder(par, n) ==
    /\ \A i \in 1..n : par[i] < i
    /\ \A i \in 2..n : par[i] # 0 => par[i] \in AncestorsOrSelf(par, i - 1)

Shapes(n) == {par \in [1..n -> 0..(n - 1)] : DocumentOrder(par, n)}

LogFilePath == "/var/log/app.log"
RootLogLevel == "DEBUG"

Document(kind, n, par, dn, ty, lg) ==
    [kind |-> kind, n |-> n, parent |-> par, dname |-> dn, type |-> ty,
     logging |-> lg]

\* what the path given to main() may resolve to: a document of at most
\* MaxNodes nodes, or no document at all
NoDocument(kind) == Document(kind, 0, <<>>, <<>>, <<>>, FALSE)

IsYamlFile(file) ==
    \/ \E k \in {"missing", "directory", "malformed", "empty"} :
           file = NoDocument(k)
    \/ \E n \in 0..MaxNodes :
           \E par \in Shapes(n), dn \in [1..n -> Segs],
              ty \in [1..n -> Types], lg \in BOOLEAN :
                file = Document("doc", n, par, dn, ty, lg)

None == NoDocument("None")

\* directory["children"] (or config["directories"] for i = 0), in the order given
Children(doc, i) ==
    SelectSeq([k \in 1..doc.n |-> k], LAMBDA j : doc.parent[j] = i)

\* the '/'-joined declared names from the top-level ancestor down to node i
RECURSIVE DeclaredPath(_, _)
DeclaredPath(doc, i) ==
    IF doc.parent[i] = 0
    THEN <<doc.dname[i]>>
    ELSE Append(DeclaredPath(doc, doc.parent[i]), doc.dname[i])

(***************************************************************************)
(* read_yaml_file: FileNotFoundError and yaml.YAMLError are caught and give *)
(* None; any other exception of open() propagates.                         *)
(***************************************************************************)
read_yaml_file(file) ==
    CASE file.kind = "missing"   -> [value |-> None, raised |-> "none"]
      [] file.kind = "malformed" -> [value |-> None, raised |-> "none"]
      [] file.kind = "directory" -> [value |-> None, raised |-> "IsADirectoryError"]
      [] file.kind = "empty"     -> [value |-> None, raised |-> "none"]
      [] OTHER                   -> [value |-> file, raised |-> "none"]

(***************************************************************************)
(* The work stack of main()                                                *)
(***************************************************************************)
\* variant: directories.pop(0), a queue
PopFirst(stack) == 1

\* directories.pop() removes and returns the last element
PopIndex(stack) == Len(stack)

Top(stack) == stack[PopIndex(stack)]

Pop(stack) ==
    SubSeq(stack, 1, PopIndex(stack) - 1)
        \o SubSeq(stack, PopIndex(stack) + 1, Len(stack))

\* variant: children inserted at the bottom of the stack
PushFront(stack, kids) == kids \o stack

\* directories.append(d) for each child, in the order given
Push(stack, kids) == stack \o kids

\* variant: f"{sub_name}/{name}"
JoinChildFirst(name, sub_name) == sub_name \o name

\* f"{name}/{sub_name}"
Join(name, sub_name) == name \o sub_name

\* variant: every descendant of the popped node is renamed, not only its children
RenameDescendants(doc, current, directory) ==
    [j \in DOMAIN current |->
        IF directory \in Ancestors(doc.parent, j)
        THEN Join(current[directory], current[j])
        ELSE current[j]]

\* d["name"] = f"{name}/{sub_name}" for each child d of the popped node
Rename(doc, current, directory) ==
    [j \in DOMAIN current |->
        IF doc.parent[j] = directory
        THEN Join(current[directory], current[j])
        ELSE current[j]]

\* variant: every type other than "file" is taken for a directory
DispatchDefaultDirectory(f, type, name) ==
    IF type = "file"
    THEN [call |-> "create_empty_file", arg |-> name,
          res |-> create_empty_file(f, name)]
    ELSE [call |-> "create_directory", arg |-> <<".">> \o name,
          res |-> create_directory(f, <<".">> \o name)]

\* the if / elif on directory["type"]: any other type does nothing
Dispatch(f, type, name) ==
    IF type = "directory"
    THEN [call |-> "create_directory", arg |-> <<".">> \o name,
          res |-> create_directory(f, <<".">> \o name)]
    ELSE IF type = "file"
    THEN [call |-> "create_empty_file", arg |-> name,
          res |-> create_empty_file(f, name)]
    ELSE [call |-> "none", arg |-> <<>>, res |-> Result(f, "none")]

(***************************************************************************)
(* Initial states: a working directory and what file_path resolves to      *)
(***************************************************************************)
EmptyDir == [p \in {} |-> Absent]

WithTemplate == OpenWrite(EmptyDir, TemplatePath, TemplateText).fs

InitialDirs ==
    { EmptyDir,
      WithTemplate,
      makedirs(WithTemplate, logging_dir).fs,
      OpenWrite(WithTemplate, <<"configs">>, UserText).fs }

Init ==
    /\ IsYamlFile(yaml)
    /\ fs \in InitialDirs
    /\ run = 1
    /\ pc = "start"
    /\ err = "none"
    /\ config = None
    /\ directories = <<>>
    /\ names = <<>>
    /\ processed = <<>>
    /\ mutations = <<>>
    /\ fs0 = fs

(***************************************************************************)
(* main(), lines 180-190: load the document; a falsy result ends main()    *)
(***************************************************************************)
ReadYaml ==
    /\ pc = "start"
    /\ LET r == read_yaml_file(yaml)
       IN  IF r.raised # "none"
           THEN /\ pc' = "raised"
                /\ err' = r.raised
                /\ UNCHANGED <<config, directories, names, mutations>>
           ELSE IF r.value = None
           THEN /\ pc' = "done"
                /\ UNCHANGED <<err, config, directories, names, mutations>>
           ELSE /\ pc' = "loop"
                /\ config' = r.value
                /\ directories' = Children(r.value, 0)
                /\ names' = [i \in 1..r.value.n |-> <<r.value.dname[i]>>]
                /\ mutations' = [i \in 1..r.value.n |-> 0]
                /\ UNCHANGED err
    /\ UNCHANGED <<yaml, fs, run, processed, fs0>>

(***************************************************************************)
(* main(), lines 192-205: one iteration of the while loop                  *)
(***************************************************************************)
Iterate ==
    /\ pc = "loop"
    /\ Len(directories) > 0
    /\ LET directory == Top(directories)
           kids == Children(config, directory)
           renamed == Rename(config, names, directory)
           d == Dispatch(fs, config.type[directory], renamed[directory])
       IN  /\ directories' = Push(Pop(directories), kids)
           /\ names' = renamed
           /\ mutations' = [j \in DOMAIN mutations |->
                               IF renamed[j] # names[j]
                               THEN mutations[j] + 1 ELSE mutations[j]]
           /\ fs' = d.res.fs
           /\ processed' = Append(processed,
                               [node |-> directory, name |-> names[directory],
                                call |-> d.call, arg |-> d.arg,
                                outcome |-> d.res.outcome])
           /\ IF Raised(d.res.outcome)
              THEN pc' = "raised" /\ err' = d.res.outcome
              ELSE UNCHANGED <<pc, err>>
    /\ UNCHANGED <<yaml, run, config, fs0>>

(***************************************************************************)
(* main(), lines 207-210: after the loop, config["logging"] is read (a     *)
(* KeyError without the key) and setup_logging is called                   *)
(***************************************************************************)
SetupLogging ==
    /\ pc = "loop"
    /\ Len(directories) = 0
    /\ IF ~config.logging
       THEN /\ pc' = "raised"
            /\ err' = "KeyError"
            /\ UNCHANGED fs
       ELSE LET r == setup_logging(fs, LogFilePath, RootLogLevel)
            IN  /\ fs' = r.fs
                /\ IF Raised(r.outcome)
                   THEN pc' = "raised" /\ err' = r.outcome
                   ELSE pc' = "done" /\ UNCHANGED err
    /\ UNCHANGED <<yaml, run, config, directories, names, processed, mutations, fs0>>

(***************************************************************************)
(* main() is called again with the same file_path, in the working          *)
(* directory the first call left behind                                    *)
(***************************************************************************)
Rerun ==
    /\ pc \in {"done", "raised"}
    /\ run = 1
    /\ run' = 2
    /\ pc' = "start"
    /\ err' = "none"
    /\ config' = None
    /\ directories' = <<>>
    /\ names' = <<>>
    /\ processed' = <<>>
    /\ mutations' = <<>>
    /\ fs0' = fs
    /\ UNCHANGED <<yaml, fs>>

Next == ReadYaml \/ Iterate \/ SetupLogging

Spec == Init /\ [][Next]_vars

NextRerun == Next \/ Rerun

SpecRerun == Init /\ [][NextRerun]_vars

(***************************************************************************)
(* Vocabulary of the properties                                            *)
(***************************************************************************)
Nodes == 1..config.n

Loaded == config.kind = "doc"

Range(seq) == {seq[k] : k \in 1..Len(seq)}

\* the iterations that processed node i
Positions(i) == {k \in 1..Len(processed) : processed[k].node = i}

Processed(i) == Positions(i) # {}

\* node i was processed, and before every processing of node j
Before(i, j) ==
    \E k \in Positions(i) : \A m \in Positions(j) : k < m

Siblings(x, y) == x # y /\ config.parent[x] = config.parent[y]

OtherType(i) == config.type[i] \notin {"directory", "file"}

UniquePaths ==
    \A i, j \in Nodes :
        i # j => DeclaredPath(config, i) # DeclaredPath(config, j)

\* C1: when a node is popped its name is the '/'-joined declared names from
\* its top-level ancestor down to itself, and that name is the path given to
\* create_directory (after "./") or to create_empty_file.
PathAtPop ==
    \A k \in 1..Len(processed) :
        LET e == processed[k]
            path == DeclaredPath(config, e.node)
        IN  /\ e.name = path
            /\ config.type[e.node] = "directory" =>
                   e.call = "create_directory" /\ e.arg = <<".">> \o path
            /\ config.type[e.node] = "file" =>
                   e.call = "create_empty_file" /\ e.arg = path

\* a file three levels deep was popped and created
PathAtPopWitness ==
    \E k \in 1..Len(processed) :
        /\ Len(processed[k].name) >= 3
        /\ processed[k].call = "create_empty_file"
        /\ processed[k].outcome = "created"

\* C2: of two siblings, the one declared later is processed first.
SiblingsReversed ==
    \A x, y \in Nodes :
        (Siblings(x, y) /\ x < y /\ Processed(x)) => Before(y, x)

\* three top-level nodes without children were processed in the order C, B, A
SiblingsReversedWitness ==
    /\ Loaded
    /\ config.n = 3
    /\ \A i \in Nodes : config.parent[i] = 0
    /\ [k \in 1..Len(processed) |-> processed[k].node] = <<3, 2, 1>>

\* C3 as claimed: every child of a node N is processed before any sibling of N
\* declared later than N.
ChildrenBeforeLaterSiblings ==
    \A n, c, sib \in Nodes :
        (config.parent[c] = n /\ Siblings(n, sib) /\ n < sib /\ Processed(sib))
            => Before(c, sib)

\* C3 as amended: every child of a node N is processed before any sibling of N
\* declared earlier than N.
ChildrenBeforeEarlierSiblings ==
    \A n, c, sib \in Nodes :
        (config.parent[c] = n /\ Siblings(n, sib) /\ sib < n /\ Processed(sib))
            => Before(c, sib)

\* a node with a child and an earlier-declared sibling: all three processed
ChildrenBeforeEarlierSiblingsWitness ==
    \E n, c, sib \in Nodes :
        /\ config.parent[c] = n /\ Siblings(n, sib) /\ sib < n
        /\ Processed(sib) /\ Processed(c) /\ Processed(n)

\* C4: in a second run over the tree the first run built nothing is created
\* or written by the traversal, an existing directory or file is reported as
\* existing without an error, and the working directory stays as the first
\* run left it.
RerunIdempotent ==
    run = 2 =>
        /\ fs = fs0
        /\ \A k \in 1..Len(processed) :
               LET e == processed[k]
               IN  /\ e.outcome # "created"
                   /\ (e.call = "create_directory" /\ IsDir(fs0, e.arg))
                          => e.outcome = "exists"
                   /\ (e.call = "create_empty_file" /\ IsFile(fs0, e.arg))
                          => e.outcome = "exists"

\* the second run finished after finding a directory and a file in place
RerunIdempotentWitness ==
    /\ run = 2
    /\ pc = "done"
    /\ \E k \in 1..Len(processed) :
           processed[k].call = "create_directory" /\ processed[k].outcome = "exists"
    /\ \E k \in 1..Len(processed) :
           processed[k].call = "create_empty_file" /\ processed[k].outcome = "exists"

\* C5 as claimed: nothing comes to exist at the path of a node of another
\* type, whether or not it has children (the declared paths being distinct).
OtherTypeLeavesNothing ==
    (Loaded /\ UniquePaths) =>
        \A i \in Nodes :
            (OtherType(i) /\ Entry(fs0, DeclaredPath(config, i)).kind = "absent")
                => Entry(fs, DeclaredPath(config, i)).kind = "absent"

\* C5 as amended: the iteration that processes a node of another type changes
\* nothing in the working directory and raises nothing.
OtherTypeStepInert ==
    [][(pc = "loop" /\ Len(directories) > 0 /\ OtherType(Top(directories)))
          => (fs' = fs /\ pc' = "loop" /\ err' = err)]_vars

\* a node of another type that has a child was processed
OtherTypeStepInertWitness ==
    \E k \in 1..Len(processed) :
        /\ OtherType(processed[k].node)
        /\ processed[k].call = "none"
        /\ \E c \in Nodes : config.parent[c] = processed[k].node

\* when setup_logging is about to be called and configs/logging is no directory
LoggingDirMissing ==
    /\ pc = "loop"
    /\ Len(directories) = 0
    /\ config.logging
    /\ ~IsDir(fs, logging_dir)

\* C6 as claimed: without configs/logging nothing is written and nothing is
\* raised, whatever the state of the template.
LoggingSkippedQuietly ==
    [][LoggingDirMissing => (fs' = fs /\ pc' = "done" /\ err' = "none")]_vars

\* C6 as amended: without configs/logging nothing is written; nothing is
\* raised if the template is readable, and FileNotFoundError if it is not.
LoggingSkippedIfTemplate ==
    [][LoggingDirMissing =>
          /\ fs' = fs
          /\ IsFile(fs, TemplatePath) => (pc' = "done" /\ err' = "none")
          /\ ~IsFile(fs, TemplatePath) =>
                 (pc' = "raised" /\ err' = "FileNotFoundError")]_vars

\* main() returned after setup_logging found the template but no configs/logging
LoggingSkippedIfTemplateWitness ==
    /\ pc = "done"
    /\ Loaded
    /\ Len(processed) > 0
    /\ IsFile(fs, TemplatePath)
    /\ ~IsDir(fs, logging_dir)
    /\ Entry(fs, LoggingConfigPath).kind = "absent"

\* C7: a document without a `logging` key is materialized and main() ends
\* without raising.
LoggingOptional ==
    (Loaded /\ ~config.logging /\ Len(directories) = 0) => err # "KeyError"

\* C8: when the path resolves to no file, or the content is no valid YAML,
\* read_yaml_file returns None without raising and main() does nothing.
LoadFailureQuiet ==
    (yaml.kind \in {"missing", "directory", "malformed"} /\ pc # "start") =>
        /\ pc = "done"
        /\ err = "none"
        /\ config = None
        /\ processed = <<>>
        /\ fs = fs0

NoCreateRaised ==
    \A k \in 1..Len(processed) : ~Raised(processed[k].outcome)

ParentCreatedFirst ==
    \A k \in 1..Len(processed) :
        LET e == processed[k]
            i == e.node
        IN  /\ config.parent[i] # 0 =>
                   \E m \in 1..(k - 1) : processed[m].node = config.parent[i]
            /\ (/\ e.call = "create_empty_file"
                /\ \A a \in Ancestors(config.parent, i) :
                       config.type[a] = "directory")
                   => /\ IsDir(fs, Parent(Resolve(e.arg)))
                      /\ e.outcome \notin {"FileNotFoundError", "NotADirectoryError"}

\* a file two directories deep was written in a directory this run created
ParentCreatedFirstWitness ==
    \E k \in 1..Len(processed) :
        /\ processed[k].call = "create_empty_file"
        /\ processed[k].outcome = "created"
        /\ Len(processed[k].arg) = 3
        /\ \A a \in Ancestors(config.parent, processed[k].node) :
               config.type[a] = "directory"
        /\ Entry(fs0, Parent(processed[k].arg)).kind = "absent"

====
